---- MODULE Spec2Model ----
(***************************************************************************)
(* csv2geojson.py: GeoBoundary (point-in-polygon lookup with nearest-edge  *)
(* fallback), DictCSV (header / rows / cols views of a CSV table) and      *)
(* CSV2GeoJSON (the joiner and the marker emitter), driven by main().      *)
(*                                                                         *)
(* Coordinates live on a grid whose unit is 15 degrees; Python's 0-based   *)
(* list indices are 1-based here (row_id, level keep the Python value + 1  *)
(* only where they index a sequence).                                      *)
(***************************************************************************)
EXTENDS Integers, Sequences, FiniteSets, TLC

VARIABLES
    boundary_files,   \* main(): the list given by --bounds, one feature list per file
    csv_file,         \* main(): the input CSV, [header, table]
    boundaries,       \* CSV2GeoJSON.boundaries: the GeoBoundary objects loaded so far
    header,           \* DictCSV.header
    rows,             \* DictCSV.rows: list of dicts (a dict is a sequence of [k, v])
    cols,             \* DictCSV.cols: dict name -> column
    pc,               \* position of the run
    level,            \* enumerate(self.boundaries): the level being processed
    row_id,           \* enumerate(self.csv.rows): index the list iterator reads next
    features,         \* dump_markers: the feature list under construction
    markers,          \* the output file of dump_markers
    csv_dump,         \* the output file of dump_csv
    lastFind,         \* the latest call of GeoBoundary.find and what it returned
    visited,          \* the (level, row_id) pairs the inner loop body has run for
    calls             \* number of DictCSV method calls made by a free-standing client

vars == <<boundary_files, csv_file, boundaries, header, rows, cols, pc, level,
          row_id, features, markers, csv_dump, lastFind, visited, calls>>

----------------------------------------------------------------------------
(* Bounds of the model *)

MaxRegions == 2      \* features per boundary file
MaxLevels == 2       \* boundary files per run
MaxRows == 2         \* records per CSV
GridMax == 3         \* coordinates range over 0..GridMax grid units
MaxCalls == 3        \* DictCSV calls of a free-standing client

----------------------------------------------------------------------------
(* Generic sequence helpers *)

Range(s) == {s[i] : i \in DOMAIN s}

SeqsUpTo(S, n) == UNION {[1..k -> S] : k \in 0..n}

Injective(s) == \A i, j \in DOMAIN s : s[i] = s[j] => i = j

----------------------------------------------------------------------------
(* GeoBoundary *)

\* feature["geometry"] handed to shapely.geometry.shape: KeyError when the
\* feature has no geometry; any geometry type shapely knows is accepted.
ToShape(feature) ==
    IF ~feature.hasGeometry
    THEN [ok |-> FALSE, shape |-> [gtype |-> "", x1 |-> 0, x2 |-> 0, y1 |-> 0, y2 |-> 0]]
    ELSE [ok |-> TRUE,
          shape |-> [gtype |-> feature.gtype, x1 |-> feature.x1, x2 |-> feature.x2,
                     y1 |-> feature.y1, y2 |-> feature.y2]]

\* GeoBoundary.__init__: places = data["features"], shapes = one shape per place.
\* properties.shapeName is not looked at.
LoadOK(file) == \A i \in DOMAIN file : ToShape(file[i]).ok

GeoBoundary(file) ==
    [places |-> file, shapes |-> [i \in DOMAIN file |-> ToShape(file[i]).shape]]

\* shapely contains: the point lies in the interior of the shape. The interior
\* of an axis-parallel rectangle excludes its edges; the interior of a Point
\* is the point itself.
Contains(shape, point) ==
    IF shape.gtype = "Point"
    THEN point = <<shape.x1, shape.y1>>
    ELSE /\ shape.x1 < point[1] /\ point[1] < shape.x2
         /\ shape.y1 < point[2] /\ point[2] < shape.y2

Clamp(v, lo, hi) == IF v < lo THEN lo ELSE IF v > hi THEN hi ELSE v

\* shapely.ops.nearest_points(shape, point)[0]: the point of the shape that is
\* nearest to the query point in the plane of the coordinates (degrees).
NearestPoint(shape, point) ==
    IF shape.gtype = "Point"
    THEN <<shape.x1, shape.y1>>
    ELSE <<Clamp(point[1], shape.x1, shape.x2), Clamp(point[2], shape.y1, shape.y2)>>

Abs(d) == IF d < 0 THEN 0 - d ELSE d

\* np.cos(np.deg2rad(15 * k)) in hundredths
CosLat(k) ==
    CASE k = 0 -> 100 [] k = 1 -> 97 [] k = 2 -> 87 [] k = 3 -> 71
      [] k = 4 -> 50 [] k = 5 -> 26 [] OTHER -> 0

\* np.power(np.sin(np.deg2rad(15 * k) / 2), 2) in ten-thousandths
SinHalfSq(k) ==
    CASE k = 0 -> 0 [] k = 1 -> 170 [] k = 2 -> 670 [] k = 3 -> 1464
      [] k = 4 -> 2500 [] k = 5 -> 3706 [] OTHER -> 5000

\* __haversine: alpha = sindlat2 + coslat1 * coslat2 * sindlng2 in units of
\* 10^-8. The returned 6371 * 2 * arctan2(sqrt(alpha), sqrt(1 - alpha)) is
\* strictly increasing in alpha on [0, 1]; find only compares distances, so
\* the distance is represented by alpha.
haversine(pt1, pt2) ==
    SinHalfSq(Abs(pt2[2] - pt1[2])) * 10000
      + CosLat(pt1[2]) * CosLat(pt2[2]) * SinHalfSq(Abs(pt2[1] - pt1[1]))

\* the matches collected in reverse order
RECURSIVE Search_LastFirst(_, _, _)
Search_LastFirst(b, point, idx) ==
    IF idx > Len(b.shapes) THEN <<>>
    ELSE IF Contains(b.shapes[idx], point)
         THEN Search_LastFirst(b, point, idx + 1) \o <<b.places[idx]>>
         ELSE Search_LastFirst(b, point, idx + 1)

\* [self.places[idx] for idx, i in enumerate(self.shapes) if i.contains(point)]
RECURSIVE Search(_, _, _)
Search(b, point, idx) ==
    IF idx > Len(b.shapes) THEN <<>>
    ELSE IF Contains(b.shapes[idx], point)
         THEN <<b.places[idx]>> \o Search(b, point, idx + 1)
         ELSE Search(b, point, idx + 1)

\* Python min over a non-empty list: a left-to-right scan
RECURSIVE ListMin(_)
ListMin(s) ==
    IF Len(s) = 1 THEN s[1]
    ELSE LET m == ListMin(Tail(s)) IN IF m < s[1] THEN m ELSE s[1]

\* the last position holding v
ListIndex_Last(s, v) == CHOOSE i \in DOMAIN s : s[i] = v /\ \A j \in (i + 1)..Len(s) : s[j] # v

\* list.index(v): the first position holding v
ListIndex(s, v) == CHOOSE i \in DOMAIN s : s[i] = v /\ \A j \in 1..(i - 1) : s[j] # v

\* distances = [haversine(nearest_points(i, point)[0], point) for i in shapes]
Distances(b, point) ==
    [i \in DOMAIN b.shapes |-> haversine(NearestPoint(b.shapes[i], point), point)]

\* GeoBoundary.find. min() of an empty list raises ValueError.
Find(b, point) ==
    LET search == Search(b, point, 1) IN
    IF Len(search) = 0
    THEN IF Len(b.shapes) = 0
         THEN [ok |-> FALSE, fallback |-> TRUE, result |-> <<>>]
         ELSE LET distances == Distances(b, point) IN
              [ok |-> TRUE, fallback |-> TRUE,
               result |-> <<b.places[ListIndex(distances, ListMin(distances))]>>]
    ELSE [ok |-> TRUE, fallback |-> FALSE, result |-> search]

NoFind == [called |-> FALSE, ok |-> FALSE, bset |-> [places |-> <<>>, shapes |-> <<>>],
           point |-> <<0, 0>>, fallback |-> FALSE, result |-> <<>>]

FindRecord(b, point) ==
    LET f == Find(b, point) IN
    [called |-> TRUE, ok |-> f.ok, bset |-> b, point |-> point,
     fallback |-> f.fallback, result |-> f.result]

----------------------------------------------------------------------------
(* Specification of find alone: one loaded boundary set, one query point *)

Coords == 0..GridMax

RegionNames == <<"A", "B", "C", "D">>

Polygon(name, x1, x2, y1, y2) ==
    [hasGeometry |-> TRUE, gtype |-> "Polygon", x1 |-> x1, x2 |-> x2, y1 |-> y1,
     y2 |-> y2, hasName |-> TRUE, shapeName |-> name]

\* the axis-parallel rectangles of the grid that have grid points inside
Rects == {r \in [x1 : Coords, x2 : Coords, y1 : Coords, y2 : Coords] :
            r.x1 + 2 <= r.x2 /\ r.y1 + 2 <= r.y2}

FindFiles ==
    {[i \in DOMAIN s |-> Polygon(RegionNames[i], s[i].x1, s[i].x2, s[i].y1, s[i].y2)] :
        s \in SeqsUpTo(Rects, MaxRegions)}

InitFind ==
    /\ \E file \in FindFiles :
         /\ boundary_files = <<file>>
         /\ boundaries = <<GeoBoundary(file)>>
    /\ \E x \in Coords, y \in Coords : lastFind = [NoFind EXCEPT !.point = <<x, y>>]
    /\ csv_file = [header |-> <<>>, table |-> <<>>]
    /\ header = <<>> /\ rows = <<>> /\ cols = <<>>
    /\ pc = "find"
    /\ level = 1 /\ row_id = 1
    /\ features = <<>>
    /\ markers = [exists |-> FALSE, features |-> <<>>]
    /\ csv_dump = [exists |-> FALSE, lines |-> <<>>]
    /\ visited = <<>>
    /\ calls = 0

FindCall ==
    /\ pc = "find"
    /\ lastFind' = FindRecord(boundaries[1], lastFind.point)
    /\ pc' = "found"
    /\ UNCHANGED <<boundary_files, csv_file, boundaries, header, rows, cols, level,
                   row_id, features, markers, csv_dump, visited, calls>>

NextFind == FindCall

SpecFind == InitFind /\ [][NextFind]_vars

----------------------------------------------------------------------------
(* Claims about find *)

ContainingIdx(b, point) == {i \in DOMAIN b.shapes : Contains(b.shapes[i], point)}

EdgeDistance(b, i, point) == haversine(NearestPoint(b.shapes[i], point), point)

\* C1: with at least one Region, find(point)[0] is the first Region in input
\* order whose polygon contains the point when some Region contains it, and the
\* nearest Region (fallback) only when none contains it.
C1_FirstMatchElseNearest ==
    (lastFind.called /\ Len(lastFind.bset.places) >= 1) =>
        LET b == lastFind.bset
            hit == ContainingIdx(b, lastFind.point)
        IN /\ lastFind.ok
           /\ Len(lastFind.result) >= 1
           /\ (hit # {}) =>
                 /\ ~lastFind.fallback
                 /\ \E i \in hit : /\ \A j \in hit : i <= j
                                   /\ lastFind.result[1] = b.places[i]
           /\ (hit = {}) =>
                 /\ lastFind.fallback
                 /\ \E i \in DOMAIN b.shapes :
                       /\ lastFind.result[1] = b.places[i]
                       /\ \A j \in DOMAIN b.shapes :
                             EdgeDistance(b, i, lastFind.point)
                               <= EdgeDistance(b, j, lastFind.point)

\* a point inside two Regions, the later of which is not the first match
C1_Witness ==
    /\ lastFind.called /\ lastFind.ok /\ ~lastFind.fallback
    /\ Cardinality(ContainingIdx(lastFind.bset, lastFind.point)) >= 2
    /\ lastFind.result[1].shapeName = "A"

\* C2: when no Region contains the point, the Region returned by the fallback
\* has an edge distance no greater than that of any Region of the set, and
\* every Region before it in sequence order is strictly farther.
C2_NearestFirstMinimal ==
    (lastFind.called /\ lastFind.ok /\ ContainingIdx(lastFind.bset, lastFind.point) = {}) =>
        LET b == lastFind.bset
            p == lastFind.point
        IN /\ Len(lastFind.result) = 1
           /\ \E i \in DOMAIN b.shapes :
                 /\ lastFind.result[1] = b.places[i]
                 /\ \A j \in DOMAIN b.shapes : EdgeDistance(b, i, p) <= EdgeDistance(b, j, p)
                 /\ \A j \in 1..(i - 1) : EdgeDistance(b, i, p) < EdgeDistance(b, j, p)

\* two Regions at the same minimal distance: the first one is returned
C2_Witness ==
    /\ lastFind.called /\ lastFind.ok /\ lastFind.fallback
    /\ Len(lastFind.bset.shapes) = 2
    /\ lastFind.bset.shapes[1] # lastFind.bset.shapes[2]
    /\ EdgeDistance(lastFind.bset, 1, lastFind.point)
         = EdgeDistance(lastFind.bset, 2, lastFind.point)
    /\ EdgeDistance(lastFind.bset, 1, lastFind.point) > 0
    /\ lastFind.result[1].shapeName = "A"

----------------------------------------------------------------------------
(* Strings: the cells of a CSV, with the two conversions the program applies *)

\* len(s) for the strings that occur as cells
StrLen(s) ==
    CASE s = "" -> 0
      [] s \in {"22"} -> 2
      [] s \in {"2.0", "old"} -> 3
      [] OTHER -> 1

\* the first w characters of s (w >= 1): what a numpy '<Uw' array keeps of s
Truncate(s, w) ==
    IF StrLen(s) <= w THEN s
    ELSE CASE s = "22" -> "2"
           [] s = "2.0" -> (IF w = 1 THEN "2" ELSE "2.")
           [] s = "old" -> (IF w = 1 THEN "o" ELSE "ol")
           [] OTHER -> s

\* a parse that yields 0 instead of raising
ParseFloat_Lenient(s) ==
    CASE s \in {"1", "1.0"} -> [ok |-> TRUE, val |-> 1]
      [] s \in {"2", "2.0"} -> [ok |-> TRUE, val |-> 2]
      [] s = "3" -> [ok |-> TRUE, val |-> 3]
      [] OTHER -> [ok |-> TRUE, val |-> 0]

\* float(s): ValueError unless s spells a number
ParseFloat(s) ==
    CASE s = "0" -> [ok |-> TRUE, val |-> 0]
      [] s \in {"1", "1.0"} -> [ok |-> TRUE, val |-> 1]
      [] s \in {"2", "2.0"} -> [ok |-> TRUE, val |-> 2]
      [] s = "3" -> [ok |-> TRUE, val |-> 3]
      [] OTHER -> [ok |-> FALSE, val |-> 0]

----------------------------------------------------------------------------
(* Python dicts: insertion-ordered, a sequence of [k, v] with distinct keys *)

DictKeys(d) == [i \in DOMAIN d |-> d[i].k]

DictHas(d, k) == \E i \in DOMAIN d : d[i].k = k

\* d[k]
DictGet(d, k) == d[CHOOSE i \in DOMAIN d : d[i].k = k].v

\* {**d, k: v}: an existing key keeps its position and takes the new value
DictSet(d, k, v) ==
    IF DictHas(d, k)
    THEN [i \in DOMAIN d |-> IF d[i].k = k THEN [k |-> k, v |-> v] ELSE d[i]]
    ELSE Append(d, [k |-> k, v |-> v])

\* dict(zip(keys, vals))
RECURSIVE DictZip(_, _)
DictZip(keys, vals) ==
    IF Len(keys) = 0 \/ Len(vals) = 0 THEN <<>>
    ELSE LET n == IF Len(keys) < Len(vals) THEN Len(keys) ELSE Len(vals) IN
         DictSet(DictZip(SubSeq(keys, 1, n - 1), SubSeq(vals, 1, n - 1)),
                 keys[n], vals[n])

\* row.values()
DictValues(d) == [i \in DOMAIN d |-> d[i].v]

----------------------------------------------------------------------------
(* DictCSV *)

Cells(table) == UNION {Range(table[i]) : i \in DOMAIN table}

\* np.array(list(reader)): a fixed-width unicode array as wide as the longest
\* cell, never narrower than one character
TableWidth(table) ==
    CHOOSE w \in 1..3 :
        /\ \A c \in Cells(table) : StrLen(c) <= w
        /\ (w = 1 \/ \E c \in Cells(table) : StrLen(c) = w)

\* the first data row consumed as if it were a second header line
DictCSV_SkipFirst(file) ==
    LET table == IF Len(file.table) = 0 THEN <<>> ELSE Tail(file.table) IN
    [header |-> file.header,
     rows |-> [i \in DOMAIN table |-> DictZip(file.header, table[i])],
     cols |-> IF Len(table) = 0 THEN <<>>
              ELSE [k \in Range(file.header) |->
                      LET j == CHOOSE j \in DOMAIN file.header : file.header[j] = k
                      IN [np |-> TRUE, w |-> TableWidth(table),
                          vals |-> [i \in DOMAIN table |-> table[i][j]]]]]

\* DictCSV.__init__: rows are dicts zipped from the header, cols are the
\* columns of the numpy table (table.T); an empty table has no columns to zip.
DictCSV(file) ==
    [header |-> file.header,
     rows |-> [i \in DOMAIN file.table |-> DictZip(file.header, file.table[i])],
     cols |-> IF Len(file.table) = 0 THEN <<>>
              ELSE [k \in Range(file.header) |->
                      LET j == CHOOSE j \in DOMAIN file.header :
                                  /\ file.header[j] = k
                                  /\ \A l \in DOMAIN file.header :
                                        file.header[l] = k => l <= j
                      IN [np |-> TRUE, w |-> TableWidth(file.table),
                          vals |-> [i \in DOMAIN file.table |-> file.table[i][j]]]]]

\* DictCSV.add_col
add_col(csv, name) ==
    [header |-> Append(csv.header, name),
     rows |-> [i \in DOMAIN csv.rows |-> DictSet(csv.rows[i], name, "")],
     cols |-> [k \in (DOMAIN csv.cols) \cup {name} |->
                 IF k = name
                 THEN [np |-> FALSE, w |-> 0, vals |-> [i \in DOMAIN csv.rows |-> ""]]
                 ELSE csv.cols[k]]]

\* self.cols[k][row_id] = v: a numpy column keeps the first w characters
StoreCol(c, k, rid, v) ==
    [c EXCEPT ![k].vals[rid] = IF c[k].np THEN Truncate(v, c[k].w) ELSE v]

\* for k in self.header: self.cols[k][row_id] = row[k]  (KeyError stops the loop)
RECURSIVE SetCols(_, _, _, _, _)
SetCols(c, hdr, i, rid, row) ==
    IF i > Len(hdr) THEN [ok |-> TRUE, cols |-> c]
    ELSE IF ~DictHas(row, hdr[i]) \/ hdr[i] \notin DOMAIN c
         THEN [ok |-> FALSE, cols |-> c]
         ELSE SetCols(StoreCol(c, hdr[i], rid, DictGet(row, hdr[i])),
                      hdr, i + 1, rid, row)

\* DictCSV.set_row: the row is stored first, then the columns are updated
set_row(csv, rid, row) ==
    LET r == SetCols(csv.cols, csv.header, 1, rid, row) IN
    [ok |-> r.ok,
     csv |-> [header |-> csv.header,
              rows |-> [csv.rows EXCEPT ![rid] = row],
              cols |-> r.cols]]

\* DictCSV.dump: writer.writerows([self.header, *[row.values() for row in self.rows]])
dump(csv) == <<csv.header>> \o [i \in DOMAIN csv.rows |-> DictValues(csv.rows[i])]

TheCSV == [header |-> header, rows |-> rows, cols |-> cols]

----------------------------------------------------------------------------
(* CSV2GeoJSON *)

\* main(): defaults of --long and --lat
long_col == "longitude"
lat_col == "latitude"

\* f'_geo_admin{level}', level counted from 0
col_name(lvl) == "_geo_admin" \o ToString(lvl - 1)

\* an iterator that loses an element after each replacement
NextRow_Skip(i) == i + 2

\* the inner loop advances the list iterator by one element
NextRow(i) == i + 1

\* body of the inner loop for one row (lines 126-131)
JoinBody(csv, boundary, lvl, i) ==
    LET row == csv.rows[i]
        hasCols == DictHas(row, long_col) /\ DictHas(row, lat_col)
        x == IF hasCols THEN ParseFloat(DictGet(row, long_col)) ELSE [ok |-> FALSE, val |-> 0]
        y == IF hasCols THEN ParseFloat(DictGet(row, lat_col)) ELSE [ok |-> FALSE, val |-> 0]
        parsed == hasCols /\ x.ok /\ y.ok
        point == <<x.val, y.val>>
        f == FindRecord(boundary, point)
        named == parsed /\ f.ok /\ f.result[1].hasName
        s == IF named
             THEN set_row(csv, i, DictSet(row, col_name(lvl), f.result[1].shapeName))
             ELSE [ok |-> FALSE, csv |-> csv]
    IN [ok |-> named /\ s.ok, parsed |-> parsed, find |-> f, csv |-> s.csv]

\* latitude and longitude in the wrong order
to_feature_Swapped(row) ==
    LET hasCols == DictHas(row, long_col) /\ DictHas(row, lat_col)
        x == IF hasCols THEN ParseFloat(DictGet(row, long_col)) ELSE [ok |-> FALSE, val |-> 0]
        y == IF hasCols THEN ParseFloat(DictGet(row, lat_col)) ELSE [ok |-> FALSE, val |-> 0]
    IN [ok |-> hasCols /\ x.ok /\ y.ok,
        feature |-> [type |-> "Feature", properties |-> row,
                     geometry |-> [coordinates |-> <<y.val, x.val>>, type |-> "Point"]]]

\* __to_feature
to_feature(row) ==
    LET hasCols == DictHas(row, long_col) /\ DictHas(row, lat_col)
        x == IF hasCols THEN ParseFloat(DictGet(row, long_col)) ELSE [ok |-> FALSE, val |-> 0]
        y == IF hasCols THEN ParseFloat(DictGet(row, lat_col)) ELSE [ok |-> FALSE, val |-> 0]
    IN [ok |-> hasCols /\ x.ok /\ y.ok,
        feature |-> [type |-> "Feature", properties |-> row,
                     geometry |-> [coordinates |-> <<x.val, y.val>>, type |-> "Point"]]]

----------------------------------------------------------------------------
(* Inputs of a run *)

FeatA == Polygon("A", 0, 3, 0, 3)
FeatB == Polygon("B", 1, 3, 0, 2)
\* a polygon without properties.shapeName
FeatN == [Polygon("", 0, 3, 0, 3) EXCEPT !.hasName = FALSE]
\* a feature whose geometry is a Point
FeatP == [hasGeometry |-> TRUE, gtype |-> "Point", x1 |-> 3, x2 |-> 3, y1 |-> 0,
          y2 |-> 0, hasName |-> TRUE, shapeName |-> "P"]
\* a feature without geometry
FeatG == [Polygon("G", 0, 3, 0, 3) EXCEPT !.hasGeometry = FALSE]

\* the boundary files a run may be given
BoundaryFiles ==
    {<<FeatA>>, <<FeatB, FeatA>>, <<FeatA, FeatN>>, <<FeatN>>, <<FeatP>>, <<FeatG>>}

\* (longitude, latitude) cells of a record
RecordCells == {<<"1", "1">>, <<"2.0", "1">>, <<"3", "0">>, <<"x", "1">>}

Headers == {<<"longitude", "latitude">>,
            <<"longitude", "latitude", "_geo_admin0">>,
            <<"longitude">>}

TableRow(h, cells) ==
    [j \in DOMAIN h |-> CASE h[j] = "longitude" -> cells[1]
                          [] h[j] = "latitude" -> cells[2]
                          [] OTHER -> "old"]

CsvFiles ==
    {[header |-> h, table |-> [i \in DOMAIN recs |-> TableRow(h, recs[i])]] :
        h \in Headers, recs \in SeqsUpTo(RecordCells, MaxRows)}

----------------------------------------------------------------------------
(* The run of main() *)

Init ==
    /\ boundary_files \in SeqsUpTo(BoundaryFiles, MaxLevels)
    /\ csv_file \in CsvFiles
    /\ boundaries = <<>>
    /\ header = <<>> /\ rows = <<>> /\ cols = <<>>
    /\ pc = "boundaries"
    /\ level = 1 /\ row_id = 1
    /\ features = <<>>
    /\ markers = [exists |-> FALSE, features |-> <<>>]
    /\ csv_dump = [exists |-> FALSE, lines |-> <<>>]
    /\ lastFind = NoFind
    /\ visited = <<>>
    /\ calls = 0

\* line 112: GeoBoundary(i) for the next boundary file
LoadBoundary ==
    /\ pc = "boundaries"
    /\ Len(boundaries) < Len(boundary_files)
    /\ LoadOK(boundary_files[Len(boundaries) + 1])
    /\ boundaries' = Append(boundaries, GeoBoundary(boundary_files[Len(boundaries) + 1]))
    /\ UNCHANGED <<boundary_files, csv_file, header, rows, cols, pc, level, row_id,
                   features, markers, csv_dump, lastFind, visited, calls>>

LoadBoundaryFail ==
    /\ pc = "boundaries"
    /\ Len(boundaries) < Len(boundary_files)
    /\ ~LoadOK(boundary_files[Len(boundaries) + 1])
    /\ pc' = "failed"
    /\ UNCHANGED <<boundary_files, csv_file, boundaries, header, rows, cols, level,
                   row_id, features, markers, csv_dump, lastFind, visited, calls>>

\* lines 113-118: the CSV is read; without boundary files __init__ returns
ReadCSV ==
    /\ pc = "boundaries"
    /\ Len(boundaries) = Len(boundary_files)
    /\ LET csv == DictCSV(csv_file) IN
         /\ header' = csv.header
         /\ rows' = csv.rows
         /\ cols' = csv.cols
    /\ pc' = IF Len(boundary_files) = 0 THEN "emit" ELSE "level"
    /\ level' = 1
    /\ UNCHANGED <<boundary_files, csv_file, boundaries, row_id, features, markers,
                   csv_dump, lastFind, visited, calls>>

\* lines 120-122: next level, its column is added
AddCol ==
    /\ pc = "level"
    /\ level <= Len(boundaries)
    /\ LET csv == add_col(TheCSV, col_name(level)) IN
         /\ header' = csv.header
         /\ rows' = csv.rows
         /\ cols' = csv.cols
    /\ row_id' = 1
    /\ pc' = "row"
    /\ UNCHANGED <<boundary_files, csv_file, boundaries, level, features, markers,
                   csv_dump, lastFind, visited, calls>>

\* lines 125-131: the iterator yields rows[row_id]; the row is resolved and stored
JoinRow ==
    /\ pc = "row"
    /\ row_id <= Len(rows)
    /\ LET b == JoinBody(TheCSV, boundaries[level], level, row_id) IN
         /\ b.ok
         /\ header' = b.csv.header
         /\ rows' = b.csv.rows
         /\ cols' = b.csv.cols
         /\ lastFind' = b.find
    /\ visited' = Append(visited, <<level, row_id>>)
    /\ row_id' = NextRow(row_id)
    /\ UNCHANGED <<boundary_files, csv_file, boundaries, pc, level, features, markers,
                   csv_dump, calls>>

\* lines 126-131 raising: KeyError / ValueError ends the run
JoinRowFail ==
    /\ pc = "row"
    /\ row_id <= Len(rows)
    /\ LET b == JoinBody(TheCSV, boundaries[level], level, row_id) IN
         /\ ~b.ok
         /\ header' = b.csv.header
         /\ rows' = b.csv.rows
         /\ cols' = b.csv.cols
         /\ lastFind' = IF b.parsed THEN b.find ELSE lastFind
    /\ pc' = "failed"
    /\ UNCHANGED <<boundary_files, csv_file, boundaries, level, row_id, features,
                   markers, csv_dump, visited, calls>>

\* the iterator of line 125 is exhausted: back to the loop of line 120
EndLevel ==
    /\ pc = "row"
    /\ row_id > Len(rows)
    /\ level' = level + 1
    /\ pc' = "level"
    /\ UNCHANGED <<boundary_files, csv_file, boundaries, header, rows, cols, row_id,
                   features, markers, csv_dump, lastFind, visited, calls>>

\* the loop of line 120 is exhausted: __init__ returns
EndJoin ==
    /\ pc = "level"
    /\ level > Len(boundaries)
    /\ pc' = "emit"
    /\ UNCHANGED <<boundary_files, csv_file, boundaries, header, rows, cols, level,
                   row_id, features, markers, csv_dump, lastFind, visited, calls>>

\* line 149: open(file_path, "w") creates an empty output file
OpenMarkers ==
    /\ pc = "emit"
    /\ markers' = [exists |-> TRUE, features |-> <<>>]
    /\ features' = <<>>
    /\ row_id' = 1
    /\ pc' = "features"
    /\ UNCHANGED <<boundary_files, csv_file, boundaries, header, rows, cols, level,
                   csv_dump, lastFind, visited, calls>>

\* line 152: the feature of the next row
ToFeature ==
    /\ pc = "features"
    /\ row_id <= Len(rows)
    /\ to_feature(rows[row_id]).ok
    /\ features' = Append(features, to_feature(rows[row_id]).feature)
    /\ row_id' = row_id + 1
    /\ UNCHANGED <<boundary_files, csv_file, boundaries, header, rows, cols, pc, level,
                   markers, csv_dump, lastFind, visited, calls>>

ToFeatureFail ==
    /\ pc = "features"
    /\ row_id <= Len(rows)
    /\ ~to_feature(rows[row_id]).ok
    /\ pc' = "failed"
    /\ UNCHANGED <<boundary_files, csv_file, boundaries, header, rows, cols, level,
                   row_id, features, markers, csv_dump, lastFind, visited, calls>>

\* lines 150-154: json.dump of the complete feature list
WriteMarkers ==
    /\ pc = "features"
    /\ row_id > Len(rows)
    /\ markers' = [exists |-> TRUE, features |-> features]
    /\ pc' = "written"
    /\ UNCHANGED <<boundary_files, csv_file, boundaries, header, rows, cols, level,
                   row_id, features, csv_dump, lastFind, visited, calls>>

\* lines 197-198: --dumpCSV given
DumpCSV ==
    /\ pc = "written"
    /\ csv_dump' = [exists |-> TRUE, lines |-> dump(TheCSV)]
    /\ pc' = "done"
    /\ UNCHANGED <<boundary_files, csv_file, boundaries, header, rows, cols, level,
                   row_id, features, markers, lastFind, visited, calls>>

\* --dumpCSV not given
Finish ==
    /\ pc = "written"
    /\ pc' = "done"
    /\ UNCHANGED <<boundary_files, csv_file, boundaries, header, rows, cols, level,
                   row_id, features, markers, csv_dump, lastFind, visited, calls>>

Next ==
    \/ LoadBoundary \/ LoadBoundaryFail \/ ReadCSV
    \/ AddCol \/ JoinRow \/ JoinRowFail \/ EndLevel \/ EndJoin
    \/ OpenMarkers \/ ToFeature \/ ToFeatureFail \/ WriteMarkers
    \/ DumpCSV \/ Finish

Spec == Init /\ [][Next]_vars

----------------------------------------------------------------------------
(* A free-standing client of DictCSV: any add_col / set_row / dump calls *)

\* a dict without the key k
DictDrop(d, k) == SelectSeq(d, LAMBDA e : e.k # k)

ClientNames == {"latitude", "zone"}

ClientValues == {"22"}

ClientRows(row) ==
    {DictSet(row, k, v) : k \in Range(DictKeys(row)), v \in ClientValues}
        \cup {DictDrop(row, k) : k \in Range(DictKeys(row))}

InitCSV ==
    /\ boundary_files = <<>>
    /\ csv_file \in {f \in CsvFiles : f.header = <<"longitude", "latitude">>}
    /\ boundaries = <<>>
    /\ header = DictCSV(csv_file).header
    /\ rows = DictCSV(csv_file).rows
    /\ cols = DictCSV(csv_file).cols
    /\ pc = "client"
    /\ level = 1 /\ row_id = 1
    /\ features = <<>>
    /\ markers = [exists |-> FALSE, features |-> <<>>]
    /\ csv_dump = [exists |-> FALSE, lines |-> <<>>]
    /\ lastFind = NoFind
    /\ visited = <<>>
    /\ calls = 0

ClientAddCol ==
    /\ pc = "client" /\ calls < MaxCalls
    /\ \E name \in ClientNames :
         LET csv == add_col(TheCSV, name) IN
         /\ header' = csv.header
         /\ rows' = csv.rows
         /\ cols' = csv.cols
    /\ calls' = calls + 1
    /\ UNCHANGED <<boundary_files, csv_file, boundaries, pc, level, row_id, features,
                   markers, csv_dump, lastFind, visited>>

ClientSetRow ==
    /\ pc = "client" /\ calls < MaxCalls
    /\ \E rid \in DOMAIN rows : \E row \in ClientRows(rows[rid]) :
         LET r == set_row(TheCSV, rid, row) IN
         /\ r.ok
         /\ header' = r.csv.header
         /\ rows' = r.csv.rows
         /\ cols' = r.csv.cols
    /\ calls' = calls + 1
    /\ UNCHANGED <<boundary_files, csv_file, boundaries, pc, level, row_id, features,
                   markers, csv_dump, lastFind, visited>>

\* set_row raising KeyError; the client catches it and goes on
ClientSetRowFail ==
    /\ pc = "client" /\ calls < MaxCalls
    /\ \E rid \in DOMAIN rows : \E row \in ClientRows(rows[rid]) :
         LET r == set_row(TheCSV, rid, row) IN
         /\ ~r.ok
         /\ header' = r.csv.header
         /\ rows' = r.csv.rows
         /\ cols' = r.csv.cols
    /\ calls' = calls + 1
    /\ UNCHANGED <<boundary_files, csv_file, boundaries, pc, level, row_id, features,
                   markers, csv_dump, lastFind, visited>>

ClientDump ==
    /\ pc = "client" /\ calls < MaxCalls
    /\ csv_dump' = [exists |-> TRUE, lines |-> dump(TheCSV)]
    /\ calls' = calls + 1
    /\ UNCHANGED <<boundary_files, csv_file, boundaries, header, rows, cols, pc, level,
                   row_id, features, markers, lastFind, visited>>

NextCSV == ClientAddCol \/ ClientSetRow \/ ClientSetRowFail \/ ClientDump

SpecCSV == InitCSV /\ [][NextCSV]_vars

\* C10: the three views of DictCSV stay coherent: no duplicate header names,
\* every row has exactly the header's names in header order, and
\* cols[k][i] = rows[i][k] for every row i and header name k.
C10_ViewsCoherent ==
    /\ Injective(header)
    /\ \A r \in DOMAIN rows :
         /\ DictKeys(rows[r]) = header
         /\ \A k \in Range(header) :
               /\ k \in DOMAIN cols
               /\ cols[k].vals[r] = DictGet(rows[r], k)

----------------------------------------------------------------------------
(* Claims about the run *)

\* __init__ has returned without raising
Joined == pc \in {"emit", "features", "written", "done"}

InputHas(k) == \E j \in DOMAIN csv_file.header : csv_file.header[j] = k

InputCell(r, k) ==
    csv_file.table[r][CHOOSE j \in DOMAIN csv_file.header : csv_file.header[j] = k]

NumericCells == {"0", "1", "1.0", "2", "2.0", "3"}

InputPoint(r) ==
    <<ParseFloat(InputCell(r, long_col)).val, ParseFloat(InputCell(r, lat_col)).val>>

Resolve(b, point) == Find(b, point).result[1]

LevelFields == [i \in 1..Len(boundary_files) |-> col_name(i)]

\* C3: after a successful join, _geo_admin{i} of every record is the name of
\* boundarySets[i].resolve(point(record)), and every original field of every
\* record still has its input value.
C3_FieldsAreResolvedNames ==
    Joined =>
        \A r \in DOMAIN rows :
            /\ \A i \in DOMAIN boundaries :
                  /\ DictHas(rows[r], col_name(i))
                  /\ DictGet(rows[r], col_name(i))
                       = Resolve(boundaries[i], InputPoint(r)).shapeName
            /\ \A j \in DOMAIN csv_file.header :
                  /\ DictHas(rows[r], csv_file.header[j])
                  /\ DictGet(rows[r], csv_file.header[j]) = csv_file.table[r][j]

\* C4: joining n levels against m records gives m records in input order, each
\* with the original fields followed by exactly the n fields _geo_admin0 ..
\* _geo_admin{n-1}, whatever the input header.
C4_ExactlyNAddedFields ==
    Joined =>
        /\ Len(rows) = Len(csv_file.table)
        /\ \A r \in DOMAIN rows :
              /\ Len(rows[r]) = Len(csv_file.header) + Len(boundary_files)
              /\ DictKeys(rows[r]) = csv_file.header \o LevelFields
              /\ SubSeq(DictValues(rows[r]), 1, Len(csv_file.header)) = csv_file.table[r]

\* a record whose longitude or latitude cell is missing or not a number
BadRecord ==
    \E r \in DOMAIN csv_file.table :
        \/ ~InputHas(long_col) \/ ~InputHas(lat_col)
        \/ InputCell(r, long_col) \notin NumericCells
        \/ InputCell(r, lat_col) \notin NumericCells

\* C5: with a bad record the run never completes (the only state it can stop
\* in is the failure state) and no marker is ever written to the output,
\* whatever was processed before the bad record.
C5_BadRecordFailsRun ==
    BadRecord =>
        /\ pc \notin {"written", "done"}
        /\ markers.features = <<>>

\* no boundary file, a valid record before the bad one: the failure comes from
\* dump_markers after the first feature was built, and nothing was written
C5_Witness ==
    /\ BadRecord /\ pc = "failed" /\ Len(boundary_files) = 0
    /\ Len(features) >= 1 /\ markers.exists /\ markers.features = <<>>

Malformed(file) ==
    \E i \in DOMAIN file :
        \/ ~file[i].hasGeometry
        \/ ~file[i].hasName
        \/ file[i].gtype \notin {"Polygon", "MultiPolygon"}

\* C6: a boundary source that fails structural validation (no shapeName, or a
\* geometry that is not a Polygon/MultiPolygon) never becomes a loaded
\* BoundarySet: its construction fails, before any record is processed.
C6_MalformedRejectedAtLoad ==
    \A i \in DOMAIN boundaries : ~Malformed(boundary_files[i])

MarkersWritten ==
    pc \in {"written", "done"} =>
        /\ Len(markers.features) = Len(rows)
        /\ \A k \in DOMAIN rows :
              /\ markers.features[k].type = "Feature"
              /\ markers.features[k].properties = rows[k]
              /\ markers.features[k].geometry.type = "Point"
              /\ markers.features[k].geometry.coordinates
                   = <<ParseFloat(DictGet(rows[k], long_col)).val,
                       ParseFloat(DictGet(rows[k], lat_col)).val>>

EmissionKeepsRecords ==
    pc \in {"emit", "features", "written"} => (rows' = rows /\ header' = header)

\* C7: the emitted features are one per record, in order, with the record as
\* properties and Point geometry [float(longitude), float(latitude)]; emission
\* leaves the records as they were.
C7_MarkersMirrorRecords == []MarkersWritten /\ [][EmissionKeepsRecords]_vars

\* two augmented records with different longitude and latitude were emitted
C7_Witness ==
    /\ pc = "done" /\ Len(boundaries) >= 1 /\ Len(markers.features) = 2
    /\ markers.features[1].geometry.coordinates = <<2, 1>>
    /\ markers.features[2].geometry.coordinates = <<3, 0>>

\* C8: with zero boundary files the header and the records after construction
\* are the input header and records, field for field and in order.
C8_ZeroBoundariesNoOp ==
    (Len(boundary_files) = 0 /\ pc # "boundaries") =>
        /\ header = csv_file.header
        /\ Len(rows) = Len(csv_file.table)
        /\ \A r \in DOMAIN rows :
              /\ DictKeys(rows[r]) = csv_file.header
              /\ DictValues(rows[r]) = csv_file.table[r]

C8_Witness ==
    /\ Len(boundary_files) = 0 /\ pc = "done"
    /\ Len(rows) = 2 /\ rows[1] # rows[2]
    /\ Len(markers.features) = 2

\* the specified order: every level's field is added empty to every record,
\* then each record in turn is resolved against each level in turn
RECURSIVE AddFields(_, _)
AddFields(row, i) ==
    IF i > Len(boundaries) THEN row ELSE AddFields(DictSet(row, col_name(i), ""), i + 1)

RECURSIVE FillFields(_, _, _)
FillFields(row, point, i) ==
    IF i > Len(boundaries) THEN row
    ELSE FillFields(DictSet(row, col_name(i), Resolve(boundaries[i], point).shapeName),
                    point, i + 1)

SpecifiedJoin ==
    [r \in DOMAIN csv_file.table |->
        LET row == AddFields(DictZip(csv_file.header, csv_file.table[r]), 1)
            point == <<ParseFloat(DictGet(row, long_col)).val,
                       ParseFloat(DictGet(row, lat_col)).val>>
        IN FillFields(row, point, 1)]

\* C9: when the join does not fail, the level-major loop with in-place
\* replacement ends with the records of the record-major order, and its body
\* has run exactly once for every (level, record) pair.
C9_LoopOrderEquivalent ==
    Joined =>
        /\ rows = SpecifiedJoin
        /\ Len(visited) = Len(boundaries) * Len(csv_file.table)
        /\ \A i \in DOMAIN boundaries : \A r \in DOMAIN csv_file.table :
              \E k \in DOMAIN visited : visited[k] = <<i, r>>

\* two levels over two records that resolve to different regions per level
C9_Witness ==
    /\ Joined /\ Len(boundaries) = 2 /\ Len(rows) = 2
    /\ Len(visited) = 4
    /\ DictGet(rows[1], "_geo_admin0") # DictGet(rows[1], "_geo_admin1")
    /\ DictGet(rows[1], "_geo_admin0") # DictGet(rows[2], "_geo_admin0")

====
